---- MODULE Spec2Model ----
(***************************************************************************)
(* Model of the four-channel relay controller wired in src/src/main.cpp.   *)
(*                                                                         *)
(* Each channel is a DigitalInputChange button, a DigitalOutput relay, a   *)
(* DigitalOutput status LED, a Repeat<bool,bool>(10000) transform feeding  *)
(* an SKOutput<bool>, and an SKPutRequestListener<bool>.  setup() creates  *)
(* the objects and connects them; afterwards loop() runs the event loop,   *)
(* which dispatches one callback at a time to completion.  Every action    *)
(* below is one such callback, with the whole synchronous observer chain   *)
(* it sets off.                                                            *)
(*                                                                         *)
(* Time is a discrete clock.  In Spec one clock tick is TickMs             *)
(* milliseconds and the repeat interval lasts RepeatTicks ticks.           *)
(* SpecButton looks at a span shorter than one repeat interval, at the     *)
(* grain of the button interrupt and the event-loop tick that forwards it. *)
(***************************************************************************)
EXTENDS Integers, Sequences, FiniteSets, TLC

\* ------------------------------------------------------------------ bounds
RepeatTicks == 2      \* clock ticks that make up one repeat interval
ActiveButtons == 2    \* buttons that are operated in SpecButton
MaxCount == 2         \* saturation of the per-window toggle counter

\* ------------------------------------------------------- program constants
NumChannels == 4          \* relay1..relay4
RepeatInterval == 10000   \* new Repeat<bool, bool>(10000)

Channels == 1..NumChannels
ButtonChannels == 1..ActiveButtons
TickMs == RepeatInterval \div RepeatTicks
Unset == "unset"
NoMsgs == [c \in Channels |-> <<>>]
Min(a, b) == IF a < b THEN a ELSE b
Event(k, c, v) == [kind |-> k, ch |-> c, val |-> v]
NoSnap == [set |-> FALSE, relay |-> FALSE, led |-> FALSE]
Snap(r, l) == [set |-> TRUE, relay |-> r, led |-> l]
Idle == [op |-> "idle", ch |-> 0, val |-> FALSE, at |-> "none"]
Running(op, c, v, at) == [op |-> op, ch |-> c, val |-> v, at |-> at]

VARIABLES
  relay,         \* relayN: state of the relay DigitalOutput (get())
  led,           \* ledN: state of the status LED DigitalOutput
  repeatOut,     \* value held by the channel's Repeat transform
  repeatArmed,   \* the Repeat transform has a repeat event scheduled
  repeatRem,     \* clock ticks until that repeat event is due
  sent,          \* messages handed to relayN_sk_output by the last callback
  sinceEmit,     \* clock ticks since the channel last emitted a message
  written,       \* a press or a remote command was handled for the channel
  btnOut,        \* buttonN: level last read by the interrupt handler
  btnLast,       \* buttonN: level last forwarded to the consumers
  triggered,     \* buttonN: an interrupt arrived since the last forward
  bounceToggles, \* button toggles of the relay in the current 50 ms window
  lastEvent,     \* the callback that ran last: its kind, channel and value
  prevPress,     \* relay and LED before the channel's last press, if no
                 \* remote command came since (SpecPairs)
  pc             \* the callback in progress and its position (SpecSteps)

btnVars == <<btnOut, btnLast, triggered, bounceToggles>>
auxVars == <<prevPress, pc>>
vars == <<relay, led, repeatOut, repeatArmed, repeatRem, sent, sinceEmit,
          written, btnOut, btnLast, triggered, bounceToggles, lastEvent,
          prevPress, pc>>

\* ------------------------------------------------------------------ setup
InitialRelayLow == FALSE

\* relayN->set(1): the value every relay is given in setup().
InitialRelay == TRUE

\* setup() writes the relays before any observer is connected and never
\* writes the LEDs: an LED DigitalOutput is constructed without a value, so
\* its state is whatever the construction left (either level).  The Repeat
\* transforms have received nothing, so no repeat event exists.  The buttons
\* idle at the pull-up level.
Init ==
  /\ relay = [c \in Channels |-> InitialRelay]
  /\ led \in [Channels -> BOOLEAN]
  /\ repeatOut = [c \in Channels |-> Unset]
  /\ repeatArmed = [c \in Channels |-> FALSE]
  /\ repeatRem = [c \in Channels |-> 0]
  /\ sent = NoMsgs
  /\ sinceEmit = [c \in Channels |-> 0]
  /\ written = [c \in Channels |-> FALSE]
  /\ btnOut = [c \in Channels |-> TRUE]
  /\ btnLast = [c \in Channels |-> FALSE]
  /\ triggered = [c \in Channels |-> FALSE]
  /\ bounceToggles = [c \in Channels |-> 0]
  /\ lastEvent = Event("setup", 0, FALSE)
  /\ prevPress = [c \in Channels |-> NoSnap]
  /\ pc = Idle

\* --------------------------------------------------------------- handlers
ToggleNewStateSame(s) == s

\* bool new_state = !relayN->get();
ToggleNewState(s) == ~s

TogglesOnAny(isPressed) == TRUE

\* if (isPressed) { ... }: the button values the handler acts on.
TogglesOn(isPressed) == isPressed

CapturedRelayFirst(c) == 1

\* The relay the button handler of channel c captures ([relayN]).
CapturedRelay(c) == c

\* Repeat::set(input): the value it emits to the SK output and keeps.
RepeatEmit(input) == input

\* [ledN](bool state) { ledN->set(state); }
LedMirror(state) == state

\* relayN->set(new_state) / ledN->set(new_state) in the PUT handler.
PutRelayValue(v) == v

PutLedValueInverted(v) == ~v

PutLedValue(v) == v

RepeatNotifyInitial(c) == InitialRelay

\* The repeat event's callback: notify() hands the held value on.
RepeatNotifyValue(c) == repeatOut[c]

RelaySetSilent(c, v, ledv) ==
  /\ relay' = [relay EXCEPT ![c] = v]
  /\ led' = [led EXCEPT ![c] = ledv]
  /\ sent' = NoMsgs
  /\ UNCHANGED <<repeatOut, repeatArmed, repeatRem, sinceEmit>>

\* relayN->set(v) once the observers are connected: the relay takes v and
\* notifies, in connection order, (1) its Repeat transform, which emits the
\* value to the SK output and (re)schedules its repeat event, and (2) the
\* LED consumer.  ledv is the state the LED is left in by the callback.
RelaySet(c, v, ledv) ==
  /\ relay' = [relay EXCEPT ![c] = v]
  /\ repeatOut' = [repeatOut EXCEPT ![c] = RepeatEmit(v)]
  /\ repeatArmed' = [repeatArmed EXCEPT ![c] = TRUE]
  /\ repeatRem' = [repeatRem EXCEPT ![c] = RepeatTicks]
  /\ sent' = [NoMsgs EXCEPT ![c] = <<RepeatEmit(v)>>]
  /\ sinceEmit' = [sinceEmit EXCEPT ![c] = 0]
  /\ led' = [led EXCEPT ![c] = ledv]

\* The button consumer of channel c called with isPressed.
ToggleHandler(c, isPressed) ==
  IF TogglesOn(isPressed)
    THEN LET r == CapturedRelay(c)
             new_state == ToggleNewState(relay[r])
         IN /\ RelaySet(r, new_state, LedMirror(new_state))
            /\ written' = [written EXCEPT ![c] = TRUE]
    ELSE /\ sent' = NoMsgs
         /\ UNCHANGED <<relay, led, repeatOut, repeatArmed, repeatRem,
                        sinceEmit, written>>

\* A button event of channel c delivered to the toggle handler.
ButtonEvent(c, isPressed) ==
  /\ ToggleHandler(c, isPressed)
  /\ lastEvent' = Event("button", c, isPressed)
  /\ UNCHANGED btnVars
  /\ UNCHANGED auxVars

\* The PUT listener of channel c delivers new_state: relayN->set(new_state)
\* runs the observer chain, then ledN->set(new_state).
PutHandler(c, new_state) ==
  /\ RelaySet(c, PutRelayValue(new_state), PutLedValue(new_state))
  /\ written' = [written EXCEPT ![c] = TRUE]

\* A PUT request on the channel's path whose value is a JSON boolean.
PutRequest(c, new_state) ==
  /\ PutHandler(c, new_state)
  /\ lastEvent' = Event("put", c, new_state)
  /\ UNCHANGED btnVars
  /\ UNCHANGED auxVars

\* JSON values a PUT request can carry that are not booleans.
Json(type, text) == [type |-> type, text |-> text]
MalformedPayloads == {Json("number", "0"), Json("string", "on")}

\* SKPutRequestListener<bool> hands the request's value on as a bool
\* (value.as<bool>()): a boolean is itself, a number is true unless zero,
\* null is false and any other value is true.  Nothing tests the type.
AsBool(p) ==
  CASE p.type = "bool" -> (p.text = "true")
    [] p.type = "number" -> (p.text # "0")
    [] p.type = "null" -> FALSE
    [] OTHER -> TRUE

\* A PUT request on the channel's path whose value is not a boolean: the
\* listener converts the value and the handler runs with the result.
PutMalformed(c, p) ==
  /\ PutHandler(c, AsBool(p))
  /\ lastEvent' = Event("badput", c, AsBool(p))
  /\ UNCHANGED btnVars
  /\ UNCHANGED auxVars

\* The repeat event of channel c is due: the Repeat transform notifies, the
\* SK output receives the held value, and the event recurs one interval on.
RepeatFire(c) ==
  /\ repeatArmed[c]
  /\ repeatRem[c] = 0
  /\ sent' = [NoMsgs EXCEPT ![c] = <<RepeatNotifyValue(c)>>]
  /\ repeatRem' = [repeatRem EXCEPT ![c] = RepeatTicks]
  /\ sinceEmit' = [sinceEmit EXCEPT ![c] = 0]
  /\ UNCHANGED <<relay, led, repeatOut, repeatArmed, written>>
  /\ lastEvent' = Event("repeat", c, FALSE)
  /\ UNCHANGED btnVars
  /\ UNCHANGED auxVars

\* One clock tick passes.  The event loop runs a due repeat event before
\* time moves on.  sinceEmit saturates one tick past the interval.
Advance ==
  /\ \A c \in Channels : repeatArmed[c] => repeatRem[c] > 0
  /\ repeatRem' = [c \in Channels |->
                     IF repeatArmed[c] THEN repeatRem[c] - 1 ELSE repeatRem[c]]
  /\ sinceEmit' = [c \in Channels |-> Min(sinceEmit[c] + 1, RepeatTicks + 1)]
  /\ sent' = NoMsgs
  /\ UNCHANGED <<relay, led, repeatOut, repeatArmed, written>>
  /\ lastEvent' = Event("clock", 0, FALSE)
  /\ UNCHANGED btnVars
  /\ UNCHANGED auxVars

Next ==
  \/ \E c \in Channels, isPressed \in BOOLEAN : ButtonEvent(c, isPressed)
  \/ \E c \in Channels, new_state \in BOOLEAN : PutRequest(c, new_state)
  \/ \E c \in Channels, p \in MalformedPayloads : PutMalformed(c, p)
  \/ \E c \in Channels : RepeatFire(c)
  \/ Advance

Spec == Init /\ [][Next]_vars

\* ------------------------------------------------------ button input path
\* The pin of button c changes level: the CHANGE interrupt reads the pin and
\* marks the input as triggered.
RawEdge(c) ==
  /\ btnOut' = [btnOut EXCEPT ![c] = ~btnOut[c]]
  /\ triggered' = [triggered EXCEPT ![c] = TRUE]
  /\ UNCHANGED <<btnLast, bounceToggles>>
  /\ lastEvent' = Event("edge", c, btnOut'[c])
  /\ UNCHANGED auxVars
  /\ sent' = NoMsgs
  /\ UNCHANGED <<relay, led, repeatOut, repeatArmed, repeatRem, sinceEmit,
                 written>>

\* The event-loop tick of button c: a triggered input whose level differs
\* from the last forwarded one is forwarded to the toggle handler at once;
\* nothing waits for the level to stay stable.
ButtonTick(c) ==
  /\ triggered[c]
  /\ btnOut[c] # btnLast[c]
  /\ triggered' = [triggered EXCEPT ![c] = FALSE]
  /\ btnLast' = [btnLast EXCEPT ![c] = btnOut[c]]
  /\ UNCHANGED btnOut
  /\ UNCHANGED auxVars
  /\ ToggleHandler(c, btnOut[c])
  /\ lastEvent' = Event("button", c, btnOut[c])
  /\ bounceToggles' = [bounceToggles EXCEPT ![c] =
                         IF relay'[c] # relay[c] THEN Min(@ + 1, MaxCount)
                                                 ELSE @]

\* One debounce window (50 ms) ends and the next begins.
WindowElapses ==
  /\ bounceToggles' = [c \in Channels |-> 0]
  /\ sent' = NoMsgs
  /\ lastEvent' = Event("window", 0, FALSE)
  /\ UNCHANGED auxVars
  /\ UNCHANGED <<btnOut, btnLast, triggered>>
  /\ UNCHANGED <<relay, led, repeatOut, repeatArmed, repeatRem, sinceEmit,
                 written>>

NextButton ==
  \/ \E c \in ButtonChannels : RawEdge(c)
  \/ \E c \in ButtonChannels : ButtonTick(c)
  \/ WindowElapses

SpecButton == Init /\ [][NextButton]_vars

\* ------------------------------------------------------- pairs of presses
\* The callbacks of Spec without the clock, recording for each channel the
\* relay and LED states its last press found, until a remote command comes.
PairButton(c, isPressed) ==
  /\ ToggleHandler(c, isPressed)
  /\ lastEvent' = Event("button", c, isPressed)
  /\ prevPress' = IF isPressed
                    THEN [prevPress EXCEPT ![c] = Snap(relay[c], led[c])]
                    ELSE prevPress
  /\ UNCHANGED btnVars
  /\ UNCHANGED pc

PairPut(c, new_state) ==
  /\ PutHandler(c, new_state)
  /\ lastEvent' = Event("put", c, new_state)
  /\ prevPress' = [prevPress EXCEPT ![c] = NoSnap]
  /\ UNCHANGED btnVars
  /\ UNCHANGED pc

NextPairs ==
  \/ \E c \in Channels, isPressed \in BOOLEAN : PairButton(c, isPressed)
  \/ \E c \in Channels, new_state \in BOOLEAN : PairPut(c, new_state)

SpecPairs == Init /\ [][NextPairs]_vars

\* ------------------------------------------------ callbacks step by step
\* The same callbacks with every write of the synchronous observer chain
\* as a step of its own.  The clock is left out: the repeat event of a
\* Repeat transform that has one may come due at any moment.

LoopIdleAlways == TRUE

\* void loop() { event_loop()->tick(); }: the one thread of the program
\* takes the next callback only when the one before has returned.
LoopIdle == pc.op = "idle"

BeginButton(c, isPressed) ==
  /\ LoopIdle
  /\ pc' = Running("button", c, isPressed, "start")
  /\ lastEvent' = Event("button", c, isPressed)
  /\ sent' = NoMsgs
  /\ UNCHANGED <<relay, led, repeatOut, repeatArmed, repeatRem, sinceEmit,
                 written, prevPress>>
  /\ UNCHANGED btnVars

BeginPut(c, new_state) ==
  /\ LoopIdle
  /\ pc' = Running("put", c, new_state, "start")
  /\ lastEvent' = Event("put", c, new_state)
  /\ sent' = NoMsgs
  /\ UNCHANGED <<relay, led, repeatOut, repeatArmed, repeatRem, sinceEmit,
                 written, prevPress>>
  /\ UNCHANGED btnVars

BeginRepeat(c) ==
  /\ LoopIdle
  /\ repeatArmed[c]
  /\ pc' = Running("repeat", c, FALSE, "start")
  /\ lastEvent' = Event("repeat", c, FALSE)
  /\ sent' = NoMsgs
  /\ UNCHANGED <<relay, led, repeatOut, repeatArmed, repeatRem, sinceEmit,
                 written, prevPress>>
  /\ UNCHANGED btnVars

\* The channel whose relay the running callback writes.
Target == IF pc.op = "button" THEN CapturedRelay(pc.ch) ELSE pc.ch

\* relayN->set(v), first part: the relay takes the value.
StepRelayWrite ==
  /\ pc.at = "start"
  /\ pc.op \in {"button", "put"}
  /\ pc.op = "button" => TogglesOn(pc.val)
  /\ LET v == IF pc.op = "button" THEN ToggleNewState(relay[Target])
                                  ELSE PutRelayValue(pc.val)
     IN /\ relay' = [relay EXCEPT ![Target] = v]
        /\ pc' = [pc EXCEPT !.at = "repeat"]
  /\ written' = [written EXCEPT ![pc.ch] = TRUE]
  /\ UNCHANGED <<led, repeatOut, repeatArmed, repeatRem, sent, sinceEmit>>

\* The button handler called with a value it does not act on returns.
StepIgnore ==
  /\ pc.at = "start"
  /\ pc.op = "button"
  /\ ~TogglesOn(pc.val)
  /\ pc' = Idle
  /\ UNCHANGED <<relay, led, repeatOut, repeatArmed, repeatRem, sent,
                 sinceEmit, written>>

\* relayN->set(v), first observer: the Repeat transform emits the relay's
\* value to the SK output and (re)schedules its repeat event.
StepRepeatSet ==
  /\ pc.at = "repeat"
  /\ repeatOut' = [repeatOut EXCEPT ![Target] = RepeatEmit(relay[Target])]
  /\ repeatArmed' = [repeatArmed EXCEPT ![Target] = TRUE]
  /\ repeatRem' = [repeatRem EXCEPT ![Target] = RepeatTicks]
  /\ sent' = [sent EXCEPT ![Target] = Append(@, RepeatEmit(relay[Target]))]
  /\ sinceEmit' = [sinceEmit EXCEPT ![Target] = 0]
  /\ pc' = [pc EXCEPT !.at = "led"]
  /\ UNCHANGED <<relay, led, written>>

\* relayN->set(v), second observer: the LED consumer.  The button handler
\* returns after it; the put handler goes on to its own ledN->set.
StepLedMirror ==
  /\ pc.at = "led"
  /\ led' = [led EXCEPT ![Target] = LedMirror(relay[Target])]
  /\ pc' = IF pc.op = "put" THEN [pc EXCEPT !.at = "led2"] ELSE Idle
  /\ UNCHANGED <<relay, repeatOut, repeatArmed, repeatRem, sent, sinceEmit,
                 written>>

\* ledN->set(new_state) of the put handler, which then returns.
StepLedSet ==
  /\ pc.at = "led2"
  /\ led' = [led EXCEPT ![Target] = PutLedValue(pc.val)]
  /\ pc' = Idle
  /\ UNCHANGED <<relay, repeatOut, repeatArmed, repeatRem, sent, sinceEmit,
                 written>>

\* The repeat event's callback: the held value goes to the SK output.
StepRepeatNotify ==
  /\ pc.at = "start"
  /\ pc.op = "repeat"
  /\ sent' = [sent EXCEPT ![Target] = Append(@, RepeatNotifyValue(Target))]
  /\ sinceEmit' = [sinceEmit EXCEPT ![Target] = 0]
  /\ pc' = Idle
  /\ UNCHANGED <<relay, led, repeatOut, repeatArmed, repeatRem, written>>

\* The callback in progress takes its next step.
Step ==
  /\ pc.op # "idle"
  /\ \/ StepRelayWrite
     \/ StepIgnore
     \/ StepRepeatSet
     \/ StepLedMirror
     \/ StepLedSet
     \/ StepRepeatNotify
  /\ UNCHANGED <<lastEvent, prevPress>>
  /\ UNCHANGED btnVars

NextSteps ==
  \/ \E c \in Channels, isPressed \in BOOLEAN : BeginButton(c, isPressed)
  \/ \E c \in Channels, new_state \in BOOLEAN : BeginPut(c, new_state)
  \/ \E c \in Channels : BeginRepeat(c)
  \/ Step

SpecSteps == Init /\ [][NextSteps]_vars

\* ----------------------------------------------------------------- claims
ButtonOn(c, v) == lastEvent.kind = "button" /\ lastEvent.ch = c /\ lastEvent.val = v
PutOn(c, v) == lastEvent.kind = "put" /\ lastEvent.ch = c /\ lastEvent.val = v

\* C1: a button event with isPressed = true leaves the channel's relay at
\* the negation of its state before the event; a button event with
\* isPressed = false leaves the relay state as it was.
C1_ToggleContract ==
  [][\A c \in Channels :
       (lastEvent'.kind = "button" /\ lastEvent'.ch = c) =>
         relay'[c] = (IF lastEvent'.val THEN ~relay[c] ELSE relay[c])]_vars

C1_Witness ==
  \E c \in Channels : ButtonOn(c, TRUE) /\ relay[c] = FALSE /\ sent[c] = <<FALSE>>

\* C2: after the remote PUT handler has run with value v, whatever the
\* state before, the channel's relay state is v and its LED state is v.
C2_PutContract ==
  \A c \in Channels, v \in BOOLEAN :
    PutOn(c, v) => relay[c] = v /\ led[c] = v

C2_Witness ==
  \E c \in Channels : PutOn(c, FALSE) /\ relay[c] = FALSE /\ led[c] = FALSE

\* C3: right after any toggle-handler invocation (press or release) or any
\* remote-command handler invocation, the channel's LED state equals its
\* relay state.
C3_MirrorAfterHandler ==
  \A c \in Channels :
    (lastEvent.kind \in {"button", "put"} /\ lastEvent.ch = c) =>
      led[c] = relay[c]

\* C4: in every state in which no callback is executing, from the end of
\* setup() on, each channel's LED level equals its relay level.
C4_LedEqualsRelay == \A c \in Channels : led[c] = relay[c]

C6_DebounceOneToggle == \A c \in Channels : bounceToggles[c] <= 1

\* C7: each change of a channel's relay state, by a toggle or by a remote
\* set, emits exactly one telemetry message on that channel, and the
\* message carries the new relay state.
C7_ChangeEmitsOne ==
  [][\A c \in Channels :
       relay'[c] # relay[c] => sent'[c] = <<relay'[c]>>]_vars

C7_Witness ==
  \E c \in Channels : ButtonOn(c, TRUE) /\ relay[c] = TRUE /\ sent[c] = <<TRUE>>

\* C8: after setup(), whether or not any press or remote command occurs, no
\* channel goes longer than the 10000 ms repeat interval without emitting
\* a telemetry message.
C8_Heartbeat == \A c \in Channels : sinceEmit[c] * TickMs <= RepeatInterval

\* C9: every telemetry message, change-triggered or periodic, carries the
\* channel's relay state at the moment it is emitted.
C9_TelemetryCurrent ==
  \A c \in Channels : \A i \in 1..Len(sent[c]) : sent[c][i] = relay[c]

C9_Witness ==
  \E c \in Channels :
    /\ lastEvent = Event("repeat", c, FALSE)
    /\ relay[c] = FALSE
    /\ sent[c] = <<FALSE>>

Frame(j) ==
  /\ relay'[j] = relay[j]
  /\ led'[j] = led[j]
  /\ sent'[j] = <<>>
  /\ repeatArmed'[j] = repeatArmed[j]
  /\ repeatRem'[j] = repeatRem[j]
  /\ repeatOut'[j] = repeatOut[j]
  /\ sinceEmit'[j] = sinceEmit[j]

\* C10: an event handled for channel i (button press or release, remote
\* set, repeat-timer expiry) leaves every other channel's relay and LED
\* unchanged, emits nothing on the other channel's path and leaves the
\* other channel's repeat event as it was.
C10_ChannelIndependence ==
  [][\A j \in Channels :
       (lastEvent'.kind \in {"button", "put", "repeat"} /\ lastEvent'.ch # j)
         => Frame(j)]_vars

C10_Witness ==
  \E i, j \in Channels :
    /\ i # j
    /\ ButtonOn(i, TRUE)
    /\ repeatArmed[j] /\ repeatRem[j] < RepeatTicks /\ relay[j] = FALSE

\* C12: a remote write request whose payload is not a boolean is ignored:
\* the channel's relay state and LED state are the same after it as before.
C12_MalformedIgnored ==
  [][\A c \in Channels :
       (lastEvent'.kind = "badput" /\ lastEvent'.ch = c) =>
         relay'[c] = relay[c] /\ led'[c] = led[c]]_vars

\* C13: only a press and a remote set change a channel's relay or LED; a
\* repeat-timer expiry changes neither; and in every state between
\* callbacks a press and a remote set of either value can be handled.
C13_StateMachine ==
  /\ [](\A c \in Channels :
          /\ ENABLED ButtonEvent(c, TRUE)
          /\ \A v \in BOOLEAN : ENABLED PutRequest(c, v))
  /\ [][\A c \in Channels :
          (relay'[c] # relay[c] \/ led'[c] # led[c]) =>
            /\ lastEvent'.ch = c
            /\ \/ lastEvent'.kind \in {"put", "badput"}
               \/ lastEvent'.kind = "button" /\ lastEvent'.val]_vars

C13_Witness ==
  \E c, d \in Channels :
    /\ lastEvent.kind = "repeat" /\ lastEvent.ch = c
    /\ relay[c] = FALSE /\ led[c] = FALSE
    /\ c # d /\ written[d] /\ relay[d] = TRUE

\* C15: every relay write after setup(), by a press or by a remote set,
\* hands exactly one message with the written value to the channel's
\* telemetry output in the same callback; a remote set of the value the
\* relay already has does so too and leaves relay and LED unchanged.
C15_EveryWriteEmits ==
  [][\A c \in Channels :
       /\ (lastEvent'.kind = "button" /\ lastEvent'.ch = c /\ lastEvent'.val)
            => sent'[c] = <<~relay[c]>>
       /\ (lastEvent'.kind = "put" /\ lastEvent'.ch = c)
            => /\ sent'[c] = <<lastEvent'.val>>
               /\ lastEvent'.val = relay[c] =>
                    relay'[c] = relay[c] /\ led'[c] = led[c]]_vars

\* A toggle or put callback has written the relay and not yet made its
\* last write of the LED.
MidUpdate == pc.op \in {"button", "put"} /\ pc.at \in {"repeat", "led", "led2"}

\* C11: callbacks run one at a time to completion: between the relay write
\* and the LED write of a toggle or put handler no other callback of any
\* channel begins, and a callback begins only when none is in progress, so
\* it never finds a written channel's relay and LED apart.
C11_AtomicUpdate ==
  [][/\ MidUpdate => (pc'.at # "start" /\ lastEvent' = lastEvent)
     /\ (pc'.at = "start" /\ pc' # pc) =>
          /\ pc.op = "idle"
          /\ \A c \in Channels : written[c] => led[c] = relay[c]]_vars

C11_Witness ==
  \E c \in Channels :
    /\ pc.op = "put" /\ pc.ch = c /\ pc.at = "led"
    /\ written[c]
    /\ relay[c] # led[c]
    /\ \E d \in Channels : d # c /\ repeatArmed[d]

\* C14: two presses handled on a channel with no remote command for it in
\* between bring its relay state and its LED state back to what they were
\* before the first of the two (releases in between do not matter).
C14_ToggleInvolution ==
  [][\A c \in Channels :
       (lastEvent'.kind = "button" /\ lastEvent'.ch = c /\ lastEvent'.val
          /\ prevPress[c].set) =>
         relay'[c] = prevPress[c].relay /\ led'[c] = prevPress[c].led]_vars

====
